---- MODULE Spec2Model ----
(***************************************************************************)
(* Model of the Island Sun product scraper.                                *)
(*   src/src/product_scraper.py  thread-pool version                       *)
(*   src/product_scraper.py      sequential original                       *)
(* A Python str is a sequence of one-character strings, so that strip,     *)
(* split, join and comparison are computed and not assumed.                *)
(***************************************************************************)
EXTENDS Integers, Sequences, FiniteSets, TLC

VARIABLES
    \* --- _parse_code_and_name and save_json called on their own
    text,          \* _parse_code_and_name: the argument
    parsed,        \* _parse_code_and_name: <<>> before the call, <<result>> after
    products,      \* save_json: the argument
    saved,         \* save_json: <<>> before the call, <<products_sorted>> after
    \* --- the process environment
    username,      \* ISLANDSUN_USERNAME: "unset", "empty" or "set"
    password,      \* ISLANDSUN_PASSWORD: "unset", "empty" or "set"
    cpu_count,     \* os.cpu_count() of the machine
    \* --- main(): the main thread
    pc,            \* position of the main thread
    exitCode,      \* <<>> while running, <<n>> once the process has exited
    session,       \* TRUE once login() has returned a session
    max_workers,   \* size of the current ThreadPoolExecutor
    \* --- the remote server, as observed
    login1,        \* outcome of the first login POST ("none" before it)
    login2,        \* outcome of the second login POST ("none" before it)
    loginPosts,    \* number of login POSTs issued
    searchPosts,   \* term -> number of search POSTs issued
    resp,          \* term -> the server's response (NoResponse before it)
    pricePosts,    \* id -> number of price POSTs issued
    priceOutcome,  \* id -> the server's response (NoOutcome before it)
    \* --- collect_full_catalog
    termState,     \* term -> "none", "queued", "running", "finished", "merged"
    termResult,    \* term -> future.result() of its fetch
    catalog,       \* the values of the dict catalog, in insertion order
    \* --- enrich_with_prices
    unique_ids,    \* the list unique_ids
    id_to_price,   \* the dict id_to_price
    priceState,    \* task -> "queued", "running", "finished", "stored"
    priceResult,   \* task -> future.result() of its fetch
    enriched,      \* the list enriched
    \* --- output files
    productsJson,  \* data/products.json: <<>> if absent, <<content>> if written
    lastUpdated,   \* data/last_updated.txt: TRUE once written
    \* --- the executor on its own
    poolSubmitted, \* tasks submitted so far
    poolPending,   \* tasks in the work queue
    poolThreads,   \* worker threads spawned
    poolIdleSem,   \* the executor's idle semaphore
    poolRunning    \* worker threads executing a task (requests in flight)

pureVars == <<text, parsed, products, saved>>
envVars == <<username, password, cpu_count>>
mainVars == <<pc, exitCode, session, max_workers>>
serverVars == <<login1, login2, loginPosts, searchPosts, resp, pricePosts, priceOutcome>>
collectVars == <<termState, termResult, catalog>>
enrichVars == <<unique_ids, id_to_price, priceState, priceResult, enriched>>
fileVars == <<productsJson, lastUpdated>>
poolVars == <<poolSubmitted, poolPending, poolThreads, poolIdleSem, poolRunning>>
pipelineVars == <<envVars, mainVars, serverVars, collectVars, enrichVars, fileVars>>

vars == <<pureVars, pipelineVars, poolVars>>

(***************************************************************************)
(* Bounds of the model.                                                    *)
(***************************************************************************)
MaxTextLen == 4      \* longest enumerated product text
MaxProducts == 3     \* longest enumerated list handed to save_json
NumTerms == 2        \* search terms enumerated, of the 1296
MaxItems == 2        \* items the search endpoint returns, over all the terms
PoolTasks == 17      \* tasks submitted to one executor, of the 1296

\* Maximum worker threads for HTTP requests
MAX_WORKERS == 15

(***************************************************************************)
(* Strings.                                                                *)
(***************************************************************************)
Chars == {" ", "/", "A", "B"}

\* Unicode code point of a character: what Python's str comparison compares.
Ord(c) ==
    CASE c = " " -> 32
      [] c = "/" -> 47
      [] c = "1" -> 49
      [] c = "2" -> 50
      [] c = "5" -> 53
      [] c = "7" -> 55
      [] c = "A" -> 65
      [] c = "B" -> 66
      [] c = "C" -> 67
      [] c = "N" -> 78
      [] c = "S" -> 83
      [] c = "a" -> 97
      [] c = "e" -> 101
      [] c = "l" -> 108
      [] c = "m" -> 109
      [] c = "n" -> 110
      [] c = "o" -> 111
      [] c = "p" -> 112

IsSpace(c) == c = " "

Min(a, b) == IF a <= b THEN a ELSE b

\* All strings over Chars of length at most n.
StringsUpTo(n) == UNION {[1..k -> Chars] : k \in 0..n}

RECURSIVE LStrip(_)
LStrip(s) ==
    IF s = <<>> THEN <<>>
    ELSE IF IsSpace(Head(s)) THEN LStrip(Tail(s)) ELSE s

RECURSIVE RStrip(_)
RStrip(s) ==
    IF s = <<>> THEN <<>>
    ELSE IF IsSpace(s[Len(s)]) THEN RStrip(SubSeq(s, 1, Len(s) - 1)) ELSE s

\* str.strip()
Strip(s) == RStrip(LStrip(s))

\* str.split("/"): always at least one (possibly empty) piece.
RECURSIVE SplitFrom(_, _)
SplitFrom(s, cur) ==
    IF s = <<>> THEN <<cur>>
    ELSE IF Head(s) = "/" THEN <<cur>> \o SplitFrom(Tail(s), <<>>)
    ELSE SplitFrom(Tail(s), Append(cur, Head(s)))

Split(s) == SplitFrom(s, <<>>)

\* " / ".join(parts)
RECURSIVE Join(_)
Join(parts) ==
    IF parts = <<>> THEN <<>>
    ELSE IF Len(parts) = 1 THEN parts[1]
    ELSE parts[1] \o <<" ", "/", " ">> \o Join(Tail(parts))

\* [p.strip() for p in pieces if p.strip()]
RECURSIVE StripNonEmpty(_)
StripNonEmpty(pieces) ==
    IF pieces = <<>> THEN <<>>
    ELSE (IF Strip(Head(pieces)) # <<>> THEN <<Strip(Head(pieces))>> ELSE <<>>)
         \o StripNonEmpty(Tail(pieces))

\* Fault: the one-segment case is not singled out, name is the (empty) rest.
ParseNoAsymmetry(t) ==
    LET parts == StripNonEmpty(Split(t))
    IN  IF parts = <<>> THEN [code |-> <<>>, name |-> Strip(t)]
        ELSE [code |-> parts[1], name |-> Join(Tail(parts))]

\* Fault: a text of one segment is given no code.
ParseCodeEmptyWhenSingle(t) ==
    LET parts == StripNonEmpty(Split(t))
    IN  IF Len(parts) <= 1 THEN [code |-> <<>>, name |-> Strip(t)]
        ELSE [code |-> parts[1], name |-> Join(Tail(parts))]

\* parts = [p.strip() for p in text.split("/") if p.strip()] ...
_parse_code_and_name(t) ==
    LET parts == StripNonEmpty(Split(t))
    IN  IF parts = <<>> THEN [code |-> <<>>, name |-> Strip(t)]
        ELSE [code |-> parts[1],
              name |-> IF Len(parts) > 1 THEN Join(Tail(parts)) ELSE Strip(t)]

(***************************************************************************)
(* The remote server: what its endpoints can answer.                       *)
(***************************************************************************)
Terms == 1..NumTerms     \* the first NumTerms of the 1296 two-character terms

\* One element of the JSON list of the search endpoint. obj is FALSE for an
\* element that is not a JSON object (a number, a string, null, a list).
\* An absent "id" or "text" is the empty string: item.get(k, "").
Obj(i, t) == [obj |-> TRUE, id |-> i, text |-> t]
NonObject == [obj |-> FALSE, id |-> <<>>, text |-> <<>>]

RawItems ==
    { Obj(<<" ", "1">>, <<"A", "/", "B", " ">>),
      Obj(<<"2">>, <<"A", "/", "B">>),
      Obj(<<"1">>, <<"B">>),
      Obj(<<>>, <<"B">>),
      Obj(<<"2">>, <<" ">>),
      NonObject }

ItemLists == UNION {[1..k -> RawItems] : k \in 0..MaxItems}

\* kind: "raises"    the try block raised: session.post (network error,
\*                    timeout), raise_for_status (a non-success status) or
\*                    resp.json() (a body that is not JSON)
\*       "not_list"  a success response whose JSON is not a list
\*       "list"      a success response whose JSON is the list items
Response(k, l) == [kind |-> k, items |-> l]
NoResponse == Response("none", <<>>)

SearchResponses ==
    {Response(k, <<>>) : k \in {"raises", "not_list"}}
        \cup {Response("list", l) : l \in ItemLists}

\* The price endpoint: session.post raises, or a response (status, body).
Outcome(k, st, b) == [kind |-> k, status |-> st, body |-> b]
NoOutcome == Outcome("none", 0, <<>>)

PriceOutcomes ==
    { Outcome("post_raises", 0, <<>>),
      Outcome("response", 500, <<"7">>),
      Outcome("response", 200, <<" ", "5">>) }

LoginOutcomes == {"ok", "post_raises", "http_error"}

\* Every id a catalog entry can carry.
AllIds == {Strip(i.id) : i \in RawItems}

(***************************************************************************)
(* ThreadPoolExecutor() without max_workers: min(32, (os.cpu_count() or 1) *)
(* + 4) worker threads.                                                    *)
(***************************************************************************)
DefaultMaxWorkers(cpus) == Min(32, cpus + 4)

(***************************************************************************)
(* collect_full_catalog.                                                   *)
(***************************************************************************)
\* The return value of _fetch_products_for_term_blocking for a response.
_fetch_products_for_term_blocking(r) ==
    IF r.kind = "raises" THEN <<>>                       \* except Exception
    ELSE IF r.kind = "list" THEN r.items ELSE <<>>       \* isinstance(data, list)

\* key = (str(item.get("id", "")).strip(), str(item.get("text", "")).strip())
ItemKey(item) == [id |-> Strip(item.id), text |-> Strip(item.text)]

InCatalog(cat, key) == \E i \in 1..Len(cat) : cat[i] = key

\* Fault: "key not in catalog" is not tested.
RECURSIVE MergeItemsNoDedup(_, _)
MergeItemsNoDedup(cat, items) ==
    IF items = <<>> THEN [catalog |-> cat, raised |-> FALSE]
    ELSE IF ~Head(items).obj THEN [catalog |-> cat, raised |-> TRUE]
    ELSE LET key == ItemKey(Head(items))
         IN  MergeItemsNoDedup(
                 IF key.id # <<>> /\ key.text # <<>> THEN Append(cat, key) ELSE cat,
                 Tail(items))

\* The body of "for item in items": raised is TRUE when item.get fails
\* (AttributeError on an element that is no dict).
RECURSIVE MergeItems(_, _)
MergeItems(cat, items) ==
    IF items = <<>> THEN [catalog |-> cat, raised |-> FALSE]
    ELSE IF ~Head(items).obj THEN [catalog |-> cat, raised |-> TRUE]
    ELSE LET key == ItemKey(Head(items))
         IN  MergeItems(
                 IF ~InCatalog(cat, key) /\ key.id # <<>> /\ key.text # <<>>
                 THEN Append(cat, key) ELSE cat,
                 Tail(items))

(***************************************************************************)
(* enrich_with_prices.                                                     *)
(***************************************************************************)
\* The return value of _fetch_price_blocking for an outcome.
_fetch_price_blocking(o) ==
    IF o.kind = "post_raises" THEN <<>>
    ELSE IF o.status = 200 THEN Strip(o.body)      \* price if price else ""
    ELSE <<>>

InSeq(s, x) == \E i \in 1..Len(s) : s[i] = x

\* Fault: "pid not in id_to_price" is not tested, every entry is fetched.
RECURSIVE AllIdsOf(_)
AllIdsOf(cat) ==
    IF cat = <<>> THEN <<>> ELSE <<Head(cat).id>> \o AllIdsOf(Tail(cat))

\* The loop "for product in catalog" that builds unique_ids.
RECURSIVE UniqueIdsFrom(_, _)
UniqueIdsFrom(cat, seen) ==
    IF cat = <<>> THEN seen
    ELSE UniqueIdsFrom(Tail(cat),
             IF InSeq(seen, Head(cat).id) THEN seen ELSE Append(seen, Head(cat).id))

UniqueIds(cat) == UniqueIdsFrom(cat, <<>>)

SeqToSet(s) == {s[i] : i \in 1..Len(s)}

\* The loop "for idx, product in enumerate(catalog)": price is
\* id_to_price.get(pid, "").
EnrichedRecord(entry, price) ==
    LET cn == _parse_code_and_name(entry.text)
    IN  [product_name |-> cn.name, product_code |-> cn.code, marketing_price |-> price]

\* Fault: the placeholder "" is used, not the fetched price.
BuildEnrichedPlaceholder(cat, cache) ==
    [i \in 1..Len(cat) |-> EnrichedRecord(cat[i], <<>>)]

BuildEnriched(cat, cache) ==
    [i \in 1..Len(cat) |->
        EnrichedRecord(cat[i],
            IF cat[i].id \in DOMAIN cache THEN cache[cat[i].id] ELSE <<>>)]

(***************************************************************************)
(* save_json: sorted(products, key=(product_name, product_code)).          *)
(***************************************************************************)
\* a < b for Python str: the first differing code point decides, a proper
\* prefix is smaller.
RECURSIVE StrLess(_, _)
StrLess(a, b) ==
    IF b = <<>> THEN FALSE
    ELSE IF a = <<>> THEN TRUE
    ELSE IF Ord(Head(a)) < Ord(Head(b)) THEN TRUE
    ELSE IF Ord(Head(a)) > Ord(Head(b)) THEN FALSE
    ELSE StrLess(Tail(a), Tail(b))

\* (x.name, x.code) < (y.name, y.code) for Python tuples.
KeyLess(x, y) ==
    \/ StrLess(x.product_name, y.product_name)
    \/ /\ x.product_name = y.product_name
       /\ StrLess(x.product_code, y.product_code)

\* sorted() is stable: an element goes after every element that is not
\* greater than it.
RECURSIVE InsertSorted(_, _)
InsertSorted(s, x) ==
    IF s = <<>> THEN <<x>>
    ELSE IF KeyLess(x, Head(s)) THEN <<x>> \o s
    ELSE <<Head(s)>> \o InsertSorted(Tail(s), x)

\* Fault: an element goes before the elements equal to it (not stable).
RECURSIVE InsertBeforeEqual(_, _)
InsertBeforeEqual(s, x) ==
    IF s = <<>> THEN <<x>>
    ELSE IF ~KeyLess(Head(s), x) THEN <<x>> \o s
    ELSE <<Head(s)>> \o InsertBeforeEqual(Tail(s), x)

RECURSIVE SortedFrom(_, _)
SortedFrom(ps, acc) ==
    IF ps = <<>> THEN acc ELSE SortedFrom(Tail(ps), InsertSorted(acc, Head(ps)))

RECURSIVE UnstableSortedFrom(_, _)
UnstableSortedFrom(ps, acc) ==
    IF ps = <<>> THEN acc
    ELSE UnstableSortedFrom(Tail(ps), InsertBeforeEqual(acc, Head(ps)))

UnstableSorted(ps) == UnstableSortedFrom(ps, <<>>)

\* products_sorted
save_json(ps) == SortedFrom(ps, <<>>)

(***************************************************************************)
(* The sequential original, src/product_scraper.py.                        *)
(***************************************************************************)
\* collect_full_catalog: the terms in enumeration order.
RECURSIVE SeqCollectFrom(_, _, _)
SeqCollectFrom(r, t, cat) ==
    IF t > NumTerms THEN cat
    ELSE SeqCollectFrom(r, t + 1,
             MergeItems(cat, _fetch_products_for_term_blocking(r[t])).catalog)

SeqCollect(r) == SeqCollectFrom(r, 1, <<>>)

\* enrich_with_prices: one pass, fetching an id the first time it is met.
\* requested is the sequence of ids fetch_price was called with.
RECURSIVE SeqEnrichFrom(_, _, _, _, _)
SeqEnrichFrom(cat, o, cache, requested, out) ==
    IF cat = <<>> THEN [enriched |-> out, requested |-> requested]
    ELSE LET pid == Head(cat).id
             hit == pid \in DOMAIN cache
             cache2 == IF hit THEN cache
                       ELSE [p \in DOMAIN cache \cup {pid} |->
                                IF p = pid THEN _fetch_price_blocking(o[pid])
                                ELSE cache[p]]
         IN  SeqEnrichFrom(Tail(cat), o, cache2,
                 IF hit THEN requested ELSE Append(requested, pid),
                 Append(out, EnrichedRecord(Head(cat), cache2[pid])))

SeqEnrich(cat, o) == SeqEnrichFrom(cat, o, <<>>, <<>>, <<>>)

(***************************************************************************)
(* Specification Spec: main() from process start to process exit.          *)
(***************************************************************************)
PipelineRest ==
    /\ pc = "login"
    /\ exitCode = <<>>
    /\ session = FALSE
    /\ max_workers = 0
    /\ login1 = "none"
    /\ login2 = "none"
    /\ loginPosts = 0
    /\ searchPosts = [t \in Terms |-> 0]
    /\ resp = [t \in Terms |-> NoResponse]
    /\ pricePosts = [p \in AllIds |-> 0]
    /\ priceOutcome = [p \in AllIds |-> NoOutcome]
    /\ termState = [t \in Terms |-> "none"]
    /\ termResult = [t \in Terms |-> <<>>]
    /\ catalog = <<>>
    /\ unique_ids = <<>>
    /\ id_to_price = <<>>
    /\ priceState = <<>>
    /\ priceResult = <<>>
    /\ enriched = <<>>
    /\ productsJson = <<>>
    /\ lastUpdated = FALSE

PipelineIdle ==
    /\ username = "unset"
    /\ password = "unset"
    /\ cpu_count = 1
    /\ PipelineRest

PureIdle ==
    /\ text = <<>>
    /\ parsed = <<>>
    /\ products = <<>>
    /\ saved = <<>>

PoolIdle ==
    /\ poolSubmitted = 0
    /\ poolPending = 0
    /\ poolThreads = 0
    /\ poolIdleSem = 0
    /\ poolRunning = 0

EnvValues == {"unset", "empty", "set"}

\* cpu_count = 1 gives the smallest pool there is, 5 threads: more than the
\* NumTerms tasks of this specification, so that every completion order is
\* possible. SpecPool is about the size of the pool.
Init ==
    /\ username \in EnvValues
    /\ password \in EnvValues
    /\ cpu_count = 1
    /\ PipelineRest
    /\ PureIdle
    /\ PoolIdle

\* sys.exit(code), or the interpreter ending on an uncaught exception (1).
Exit(code) ==
    /\ pc' = "exit"
    /\ exitCode' = <<code>>

\* login(), "if not username or not password": None and "" are both falsy.
Login_MissingCredentials ==
    /\ pc = "login"
    /\ username # "set" \/ password # "set"
    /\ Exit(2)
    /\ UNCHANGED <<pureVars, envVars, session, max_workers, serverVars,
                   collectVars, enrichVars, fileVars, poolVars>>

\* s.post(LOGIN_URL, data={"user": username}): its status is never looked at.
Login_Post1 ==
    /\ pc = "login"
    /\ username = "set" /\ password = "set"
    /\ \E o \in LoginOutcomes :
        /\ login1' = o
        /\ loginPosts' = loginPosts + 1
        /\ IF o = "post_raises"
           THEN Exit(3)
           ELSE pc' = "login_post2" /\ UNCHANGED exitCode
    /\ UNCHANGED <<pureVars, envVars, session, max_workers, login2, searchPosts,
                   resp, pricePosts, priceOutcome, collectVars, enrichVars,
                   fileVars, poolVars>>

\* Fault: raise_for_status() is not called.
Login_Post2_NoStatusCheck ==
    /\ pc = "login_post2"
    /\ \E o \in LoginOutcomes :
        /\ login2' = o
        /\ loginPosts' = loginPosts + 1
        /\ IF o # "post_raises"
           THEN session' = TRUE /\ pc' = "collect" /\ UNCHANGED exitCode
           ELSE Exit(3) /\ UNCHANGED session
    /\ UNCHANGED <<pureVars, envVars, max_workers, login1, searchPosts, resp,
                   pricePosts, priceOutcome, collectVars, enrichVars, fileVars,
                   poolVars>>

\* resp = s.post(..., password); resp.raise_for_status(); return s
Login_Post2 ==
    /\ pc = "login_post2"
    /\ \E o \in LoginOutcomes :
        /\ login2' = o
        /\ loginPosts' = loginPosts + 1
        /\ IF o = "ok"
           THEN session' = TRUE /\ pc' = "collect" /\ UNCHANGED exitCode
           ELSE Exit(3) /\ UNCHANGED session
    /\ UNCHANGED <<pureVars, envVars, max_workers, login1, searchPosts, resp,
                   pricePosts, priceOutcome, collectVars, enrichVars, fileVars,
                   poolVars>>

\* with ThreadPoolExecutor() as executor: future_to_term = {submit(...) ...}
Collect_Submit ==
    /\ pc = "collect"
    /\ max_workers' = DefaultMaxWorkers(cpu_count)
    /\ termState' = [t \in Terms |-> "queued"]
    /\ pc' = "collect_wait"
    /\ UNCHANGED <<pureVars, envVars, exitCode, session, serverVars, termResult,
                   catalog, enrichVars, fileVars, poolVars>>

RunningTerms == {t \in Terms : termState[t] = "running"}

\* Number of items the server has returned so far, over all the terms.
RECURSIVE ItemsReturned(_)
ItemsReturned(t) ==
    IF t > NumTerms THEN 0 ELSE Len(resp[t].items) + ItemsReturned(t + 1)

\* A worker thread takes the oldest queued task and issues its POST.
Fetch_Start(t) ==
    /\ pc \in {"collect_wait", "collect_abort"}
    /\ termState[t] = "queued"
    /\ \A u \in Terms : u < t => termState[u] # "queued"
    /\ Cardinality(RunningTerms) < max_workers
    /\ termState' = [termState EXCEPT ![t] = "running"]
    /\ searchPosts' = [searchPosts EXCEPT ![t] = @ + 1]
    /\ UNCHANGED <<pureVars, envVars, mainVars, login1, login2, loginPosts, resp,
                   pricePosts, priceOutcome, termResult, catalog, enrichVars,
                   fileVars, poolVars>>

\* The server answers and _fetch_products_for_term_blocking returns.
Fetch_Finish(t) ==
    /\ termState[t] = "running"
    /\ \E r \in SearchResponses :
        /\ ItemsReturned(1) + Len(r.items) <= MaxItems
        /\ resp' = [resp EXCEPT ![t] = r]
        /\ termResult' = [termResult EXCEPT ![t] = _fetch_products_for_term_blocking(r)]
    /\ termState' = [termState EXCEPT ![t] = "finished"]
    /\ UNCHANGED <<pureVars, envVars, mainVars, login1, login2, loginPosts,
                   searchPosts, pricePosts, priceOutcome, catalog, enrichVars,
                   fileVars, poolVars>>

\* One iteration of "for future in as_completed(future_to_term)".
Collect_Merge(t) ==
    /\ pc = "collect_wait"
    /\ termState[t] = "finished"
    /\ LET m == MergeItems(catalog, termResult[t])
       IN  /\ catalog' = m.catalog
           /\ IF m.raised
              THEN pc' = "collect_abort" /\ UNCHANGED termState
              ELSE pc' = pc /\ termState' = [termState EXCEPT ![t] = "merged"]
    /\ UNCHANGED <<pureVars, envVars, exitCode, session, max_workers, serverVars,
                   termResult, enrichVars, fileVars, poolVars>>

\* The exception leaves the with block: shutdown(wait=True) lets the queued
\* fetches run to their end, then main() dies with the traceback.
Collect_Abort ==
    /\ pc = "collect_abort"
    /\ \A t \in Terms : termState[t] \notin {"queued", "running"}
    /\ Exit(1)
    /\ UNCHANGED <<pureVars, envVars, session, max_workers, serverVars,
                   collectVars, enrichVars, fileVars, poolVars>>

\* return list(catalog.values())
Collect_Return ==
    /\ pc = "collect_wait"
    /\ \A t \in Terms : termState[t] = "merged"
    /\ pc' = "enrich"
    /\ UNCHANGED <<pureVars, envVars, exitCode, session, max_workers, serverVars,
                   collectVars, enrichVars, fileVars, poolVars>>

\* The unique_ids loop, then the submits of the second executor: one task
\* per element of unique_ids.
Enrich_Submit ==
    /\ pc = "enrich"
    /\ unique_ids' = UniqueIds(catalog)
    /\ id_to_price' = [p \in SeqToSet(unique_ids') |-> <<>>]
    /\ priceState' = [i \in 1..Len(unique_ids') |-> "queued"]
    /\ priceResult' = [i \in 1..Len(unique_ids') |-> <<>>]
    /\ max_workers' = DefaultMaxWorkers(cpu_count)
    /\ pc' = "enrich_wait"
    /\ UNCHANGED <<pureVars, envVars, exitCode, session, serverVars, collectVars,
                   enriched, fileVars, poolVars>>

PriceTasks == 1..Len(unique_ids)

RunningPrices == {i \in PriceTasks : priceState[i] = "running"}

\* A worker thread takes the oldest queued task and issues its POST.
Price_Start(i) ==
    /\ pc = "enrich_wait"
    /\ priceState[i] = "queued"
    /\ \A j \in 1..(i - 1) : priceState[j] # "queued"
    /\ Cardinality(RunningPrices) < max_workers
    /\ priceState' = [priceState EXCEPT ![i] = "running"]
    /\ pricePosts' = [pricePosts EXCEPT ![unique_ids[i]] = @ + 1]
    /\ UNCHANGED <<pureVars, envVars, mainVars, login1, login2, loginPosts,
                   searchPosts, resp, priceOutcome, collectVars, unique_ids,
                   id_to_price, priceResult, enriched, fileVars, poolVars>>

\* The server answers and _fetch_price_blocking returns.
Price_Finish(i) ==
    /\ pc = "enrich_wait"
    /\ priceState[i] = "running"
    /\ \E o \in PriceOutcomes :
        /\ priceOutcome' = [priceOutcome EXCEPT ![unique_ids[i]] = o]
        /\ priceResult' = [priceResult EXCEPT ![i] = _fetch_price_blocking(o)]
    /\ priceState' = [priceState EXCEPT ![i] = "finished"]
    /\ UNCHANGED <<pureVars, envVars, mainVars, login1, login2, loginPosts,
                   searchPosts, resp, pricePosts, collectVars, unique_ids,
                   id_to_price, enriched, fileVars, poolVars>>

\* One iteration of "for future in as_completed(future_to_pid)":
\* id_to_price[pid] = future.result() or ""
Price_Store(i) ==
    /\ pc = "enrich_wait"
    /\ priceState[i] = "finished"
    /\ id_to_price' = [id_to_price EXCEPT ![unique_ids[i]] = priceResult[i]]
    /\ priceState' = [priceState EXCEPT ![i] = "stored"]
    /\ UNCHANGED <<pureVars, envVars, mainVars, serverVars, collectVars,
                   unique_ids, priceResult, enriched, fileVars, poolVars>>

\* The final loop over catalog, and return enriched.
Enrich_Return ==
    /\ pc = "enrich_wait"
    /\ \A i \in PriceTasks : priceState[i] = "stored"
    /\ enriched' = BuildEnriched(catalog, id_to_price)
    /\ pc' = "save"
    /\ UNCHANGED <<pureVars, envVars, exitCode, session, max_workers, serverVars,
                   collectVars, unique_ids, id_to_price, priceState, priceResult,
                   fileVars, poolVars>>

\* save_json(products)
Save ==
    /\ pc = "save"
    /\ productsJson' = <<save_json(enriched)>>
    /\ pc' = "write_last_updated"
    /\ UNCHANGED <<pureVars, envVars, exitCode, session, max_workers, serverVars,
                   collectVars, enrichVars, lastUpdated, poolVars>>

\* write_last_updated_file(...), then main() returns: exit status 0.
WriteLastUpdated ==
    /\ pc = "write_last_updated"
    /\ lastUpdated' = TRUE
    /\ Exit(0)
    /\ UNCHANGED <<pureVars, envVars, session, max_workers, serverVars,
                   collectVars, enrichVars, productsJson, poolVars>>

Next ==
    \/ Login_MissingCredentials
    \/ Login_Post1
    \/ Login_Post2
    \/ Collect_Submit
    \/ \E t \in Terms : Fetch_Start(t)
    \/ \E t \in Terms : Fetch_Finish(t)
    \/ \E t \in Terms : Collect_Merge(t)
    \/ Collect_Abort
    \/ Collect_Return
    \/ Enrich_Submit
    \/ \E i \in PriceTasks : Price_Start(i)
    \/ \E i \in PriceTasks : Price_Finish(i)
    \/ \E i \in PriceTasks : Price_Store(i)
    \/ Enrich_Return
    \/ Save
    \/ WriteLastUpdated

Spec == Init /\ [][Next]_vars

(***************************************************************************)
(* Specification SpecParse: _parse_code_and_name applied to every text of  *)
(* length at most MaxTextLen and to the documented examples.               *)
(***************************************************************************)
ExampleABC == <<" ", "A", " ", "/", " ", "B", " ", "/", " ", "C", " ">>
ExampleSolo == <<"S", "o", "l", "o", "N", "a", "m", "e">>

ParseInputs == StringsUpTo(MaxTextLen) \cup {ExampleABC, ExampleSolo}

InitParse ==
    /\ text \in ParseInputs
    /\ parsed = <<>>
    /\ products = <<>>
    /\ saved = <<>>
    /\ PipelineIdle
    /\ PoolIdle

ParseCall ==
    /\ parsed = <<>>
    /\ parsed' = <<_parse_code_and_name(text)>>
    /\ UNCHANGED <<text, products, saved, pipelineVars, poolVars>>

NextParse == ParseCall

SpecParse == InitParse /\ [][NextParse]_vars

(***************************************************************************)
(* Specification SpecSort: save_json applied to every list of at most      *)
(* MaxProducts enriched records, the documented example among them.        *)
(***************************************************************************)
Apple == <<"A", "p", "p", "l", "e">>
Banana == <<"B", "a", "n", "a", "n", "a">>

SortRecords ==
    [product_name : {Apple, Banana, <<"A">>},
     product_code : {<<"1">>, <<"2">>},
     marketing_price : {<<>>, <<"5">>}]

InitSort ==
    /\ products \in UNION {[1..k -> SortRecords] : k \in 0..MaxProducts}
    /\ saved = <<>>
    /\ text = <<>>
    /\ parsed = <<>>
    /\ PipelineIdle
    /\ PoolIdle

SaveCall ==
    /\ saved = <<>>
    /\ saved' = <<save_json(products)>>
    /\ UNCHANGED <<text, parsed, products, pipelineVars, poolVars>>

NextSort == SaveCall

SpecSort == InitSort /\ [][NextSort]_vars

(***************************************************************************)
(* Specification SpecPool: one ThreadPoolExecutor() and the PoolTasks      *)
(* tasks submitted to it, counted.                                         *)
(***************************************************************************)
CpuCounts == {1, 4, 12, 28}

InitPool ==
    /\ username = "set"
    /\ password = "set"
    /\ cpu_count \in CpuCounts
    /\ PipelineRest
    /\ PureIdle
    /\ PoolIdle

\* ThreadPoolExecutor()
Pool_Create ==
    /\ max_workers = 0
    /\ max_workers' = DefaultMaxWorkers(cpu_count)
    /\ UNCHANGED <<pureVars, envVars, pc, exitCode, session, serverVars,
                   collectVars, enrichVars, fileVars, poolVars>>

\* executor.submit(...): the task is queued, and a thread is spawned unless
\* an idle one is signalled or max_workers threads exist.
Pool_Submit ==
    /\ max_workers > 0
    /\ poolSubmitted < PoolTasks
    /\ poolSubmitted' = poolSubmitted + 1
    /\ poolPending' = poolPending + 1
    /\ IF poolIdleSem > 0
       THEN poolIdleSem' = poolIdleSem - 1 /\ UNCHANGED poolThreads
       ELSE /\ poolThreads' = IF poolThreads < max_workers
                              THEN poolThreads + 1 ELSE poolThreads
            /\ UNCHANGED poolIdleSem
    /\ UNCHANGED <<pureVars, pipelineVars, poolRunning>>

\* A thread that runs no task takes the oldest one and issues its POST.
Pool_Take ==
    /\ poolPending > 0
    /\ poolRunning < poolThreads
    /\ poolPending' = poolPending - 1
    /\ poolRunning' = poolRunning + 1
    /\ UNCHANGED <<pureVars, pipelineVars, poolSubmitted, poolThreads, poolIdleSem>>

\* The blocking fetch returns; the thread signals that it is idle.
Pool_Complete ==
    /\ poolRunning > 0
    /\ poolRunning' = poolRunning - 1
    /\ poolIdleSem' = poolIdleSem + 1
    /\ UNCHANGED <<pureVars, pipelineVars, poolSubmitted, poolPending, poolThreads>>

NextPool ==
    \/ Pool_Create
    \/ Pool_Submit
    \/ Pool_Take
    \/ Pool_Complete

SpecPool == InitPool /\ [][NextPool]_vars

(***************************************************************************)
(* Properties.                                                             *)
(***************************************************************************)
\* Declarative helpers, written without the operators of the model.
SetMin(S) == CHOOSE x \in S : \A y \in S : x <= y
SetMax(S) == CHOOSE x \in S : \A y \in S : x >= y

\* s without its leading and trailing blanks.
Trimmed(s) ==
    LET solid == {i \in 1..Len(s) : s[i] # " "}
    IN  IF solid = {} THEN <<>> ELSE SubSeq(s, SetMin(solid), SetMax(solid))

NoDuplicates(s) == \A i, j \in 1..Len(s) : s[i] = s[j] => i = j

LoginOver == pc \notin {"login", "login_post2"}
CredentialsMissing == username # "set" \/ password # "set"
NothingAfterLogin ==
    /\ \A t \in Terms : searchPosts[t] = 0
    /\ \A p \in AllIds : pricePosts[p] = 0
    /\ productsJson = <<>>
    /\ ~lastUpdated

\* C1 as stated: once login() is over, missing credentials mean exit code 2
\* with no request issued; otherwise a second login request that raised or
\* returned a non-success status means exit code 3; otherwise a session was
\* returned. After exit code 2 or 3 nothing was searched, priced or written.
C1_LoginOutcomesAsStated ==
    LoginOver =>
        /\ IF CredentialsMissing
           THEN exitCode = <<2>> /\ loginPosts = 0 /\ ~session
           ELSE IF login2 \in {"post_raises", "http_error"}
                THEN exitCode = <<3>> /\ ~session
                ELSE session /\ exitCode \notin {<<2>>, <<3>>}
        /\ exitCode \in {<<2>>, <<3>>} => NothingAfterLogin

\* C1 amended: as C1, but exit code 3 also follows when the first login
\* request raises (the second is then never issued).
C1_LoginOutcomes ==
    LoginOver =>
        /\ IF CredentialsMissing
           THEN exitCode = <<2>> /\ loginPosts = 0 /\ ~session
           ELSE IF login1 = "post_raises" \/ login2 \in {"post_raises", "http_error"}
                THEN exitCode = <<3>> /\ ~session
                ELSE session /\ exitCode \notin {<<2>>, <<3>>}
        /\ exitCode \in {<<2>>, <<3>>} => NothingAfterLogin

\* C1 witness: the process has exited with 3 because the first request raised.
C1_Witness ==
    /\ pc = "exit"
    /\ exitCode = <<3>>
    /\ login1 = "post_raises"
    /\ login2 = "none"

\* The (id, text) pairs, trimmed and both non-empty, of the successful list
\* responses.
ExpectedPairs ==
    {k \in {[id |-> Trimmed(resp[t].items[i].id), text |-> Trimmed(resp[t].items[i].text)] :
                <<t, i>> \in {x \in Terms \X (1..MaxItems) :
                                 /\ resp[x[1]].kind = "list"
                                 /\ x[2] <= Len(resp[x[1]].items)
                                 /\ resp[x[1]].items[x[2]].obj}} :
        k.id # <<>> /\ k.text # <<>>}

Collected == pc \in {"enrich", "enrich_wait", "save", "write_last_updated"}

CatalogExact ==
    Collected =>
        /\ SeqToSet(catalog) = ExpectedPairs
        /\ NoDuplicates(catalog)
        /\ \A i \in 1..Len(catalog) : catalog[i].id # <<>> /\ catalog[i].text # <<>>

CatalogOnlyAppends ==
    /\ Len(catalog') >= Len(catalog)
    /\ \A i \in 1..Len(catalog) : catalog'[i] = catalog[i]

\* C2: what collect_full_catalog returns is exactly the set of trimmed,
\* non-empty (id, text) pairs of the successful list responses, each once,
\* whatever the completion order; and an entry once stored is never replaced
\* or altered (the catalog only grows at its end).
C2_CatalogIsDistinctPairs == []CatalogExact /\ [][CatalogOnlyAppends]_vars

\* C2 witness: two terms returned the same key (one of them untrimmed or not)
\* and collect_full_catalog has returned.
C2_Witness ==
    /\ pc = "enrich"
    /\ \E t, u \in Terms :
        /\ t # u
        /\ resp[t].kind = "list" /\ resp[u].kind = "list"
        /\ Len(resp[t].items) = 1 /\ Len(resp[u].items) = 1
        /\ resp[t].items[1].obj /\ resp[u].items[1].obj
        /\ Trimmed(resp[t].items[1].id) = Trimmed(resp[u].items[1].id)
        /\ Trimmed(resp[t].items[1].text) = Trimmed(resp[u].items[1].text)
        /\ resp[t].items[1].id # Trimmed(resp[t].items[1].id)
    /\ Len(catalog) = 1

Enriched == pc \in {"save", "write_last_updated"} \/ (pc = "exit" /\ exitCode = <<0>>)

CatalogIds == {catalog[i].id : i \in 1..Len(catalog)}

\* C3: the price endpoint is never asked twice for an id; once
\* enrich_with_prices has returned it was asked exactly once for each id of
\* the catalog and for no other, and every record carries the result of the
\* one fetch for its entry's id.
C3_OnePriceFetchPerId ==
    /\ \A p \in AllIds : pricePosts[p] <= 1
    /\ Enriched =>
        /\ \A p \in AllIds : pricePosts[p] = (IF p \in CatalogIds THEN 1 ELSE 0)
        /\ Len(enriched) = Len(catalog)
        /\ \A i \in 1..Len(catalog) :
              enriched[i].marketing_price
                  = _fetch_price_blocking(priceOutcome[catalog[i].id])

\* C3 witness: two catalog entries share an id, its price was fetched and is
\* not empty, and enrich_with_prices has returned.
C3_Witness ==
    /\ pc = "save"
    /\ \E i, j \in 1..Len(catalog) :
        /\ i # j
        /\ catalog[i].id = catalog[j].id
        /\ enriched[i].marketing_price # <<>>
        /\ enriched[j].marketing_price = enriched[i].marketing_price

\* C4 as stated: once login has succeeded nothing the two endpoints answer
\* aborts the run: the main thread never leaves collection by an exception,
\* the process only ever exits with 0 and both files written, a term whose
\* fetch failed adds nothing, and a failed price fetch leaves "" as price.
C4_ErrorsNeverAbort ==
    session =>
        /\ pc # "collect_abort"
        /\ pc = "exit" => exitCode = <<0>> /\ productsJson # <<>> /\ lastUpdated
        /\ \A t \in Terms : resp[t].kind \in {"raises", "not_list"} => termResult[t] = <<>>
        /\ Enriched =>
              \A i \in 1..Len(catalog) :
                  (\/ priceOutcome[catalog[i].id].kind = "post_raises"
                   \/ priceOutcome[catalog[i].id].status # 200)
                      => enriched[i].marketing_price = <<>>

\* The pieces of t between consecutive "/" (or an end of t), as pairs of cut
\* positions; those whose trimmed text is not empty, in order of position.
Cuts(t) == {0, Len(t) + 1} \cup {i \in 1..Len(t) : t[i] = "/"}
Pieces(t) ==
    {p \in Cuts(t) \X Cuts(t) :
        p[1] < p[2] /\ ~\E c \in Cuts(t) : p[1] < c /\ c < p[2]}
PieceText(t, p) == Trimmed(SubSeq(t, p[1] + 1, p[2] - 1))
KeptPieces(t) == {p \in Pieces(t) : PieceText(t, p) # <<>>}
Segments(t) ==
    [k \in 1..Cardinality(KeptPieces(t)) |->
        PieceText(t, CHOOSE p \in KeptPieces(t) :
                        Cardinality({q \in KeptPieces(t) : q[1] < p[1]}) = k - 1)]

RECURSIVE SlashJoined(_, _)
SlashJoined(segs, k) ==
    IF k = Len(segs) THEN segs[k]
    ELSE segs[k] \o <<" ", "/", " ">> \o SlashJoined(segs, k + 1)

\* C5: with no non-empty segment, code is "" and name the trimmed text; with
\* exactly one, code is that segment and name the trimmed text; with two or
\* more, code is the first and name the others joined with " / ".
C5_ParseCodeAndName ==
    parsed # <<>> =>
        LET segs == Segments(text)
            n == Len(segs)
        IN  /\ n = 0 => parsed[1] = [code |-> <<>>, name |-> Trimmed(text)]
            /\ n = 1 => parsed[1] = [code |-> segs[1], name |-> Trimmed(text)]
            /\ n >= 2 => parsed[1] = [code |-> segs[1], name |-> SlashJoined(segs, 2)]

\* C5 witness: " A / B / C " has been parsed into code "A", name "B / C".
C5_Witness ==
    /\ text = ExampleABC
    /\ parsed = <<[code |-> <<"A">>, name |-> <<"B", " ", "/", " ", "C">>]>>

HasNoSlash(t) == \A i \in 1..Len(t) : t[i] # "/"

\* C6 as stated: the record of a catalog text without "/" has product_code ""
\* and product_name equal to the text.
C6_NoSlashCodeEmptyAsStated ==
    Enriched =>
        \A i \in 1..Len(catalog) :
            HasNoSlash(catalog[i].text) =>
                /\ enriched[i].product_code = <<>>
                /\ enriched[i].product_name = catalog[i].text

\* C6 amended: the record of a catalog text without "/" has product_code
\* equal to the text and product_name equal to the text.
C6_NoSlashCodeIsText ==
    Enriched =>
        \A i \in 1..Len(catalog) :
            HasNoSlash(catalog[i].text) =>
                /\ enriched[i].product_code = catalog[i].text
                /\ enriched[i].product_name = catalog[i].text

\* C6 witness: a catalog text without "/" has been enriched.
C6_Witness ==
    /\ pc = "save"
    /\ \E i \in 1..Len(catalog) :
        /\ HasNoSlash(catalog[i].text)
        /\ enriched[i].product_name = catalog[i].text

\* a < b, lexicographically by code point.
LexLess(a, b) ==
    \E k \in 1..Len(b) :
        /\ Len(a) >= k - 1
        /\ \A i \in 1..(k - 1) : a[i] = b[i]
        /\ Len(a) = k - 1 \/ Ord(a[k]) < Ord(b[k])

PairLess(x, y) ==
    \/ LexLess(x.product_name, y.product_name)
    \/ x.product_name = y.product_name /\ LexLess(x.product_code, y.product_code)

SameKey(x, y) == x.product_name = y.product_name /\ x.product_code = y.product_code

Bijections(n) == {p \in [1..n -> 1..n] : \A i, j \in 1..n : p[i] = p[j] => i = j}

\* C7: what save_json returns is a permutation of its argument, in
\* non-decreasing order of (product_name, product_code), in which records of
\* equal key keep their input order.
C7_SaveSortsStably ==
    saved # <<>> =>
        /\ Len(saved[1]) = Len(products)
        /\ \E p \in Bijections(Len(products)) :
            /\ \A i \in 1..Len(products) : saved[1][i] = products[p[i]]
            /\ \A i, j \in 1..Len(products) :
                  i < j => /\ ~PairLess(saved[1][j], saved[1][i])
                           /\ SameKey(saved[1][i], saved[1][j]) => p[i] < p[j]

SortExample(n, c) == [product_name |-> n, product_code |-> c, marketing_price |-> <<>>]

\* C7 witness: Banana/1, Apple/2, Apple/1 has come out as Apple/1, Apple/2,
\* Banana/1.
C7_Witness ==
    /\ products = <<SortExample(Banana, <<"1">>), SortExample(Apple, <<"2">>),
                    SortExample(Apple, <<"1">>)>>
    /\ saved = << <<SortExample(Apple, <<"1">>), SortExample(Apple, <<"2">>),
                    SortExample(Banana, <<"1">>)>> >>

\* C8 as stated: products.json depends on the server's responses alone, not
\* on the order in which the term fetches complete. Completion in term order
\* is one of the orders, so every run must write what that order writes: the
\* sorted enrichment of the catalog collected term by term.
C8_OutputIndependentOfOrder ==
    (pc = "exit" /\ exitCode = <<0>>) =>
        productsJson = <<save_json(SeqEnrich(SeqCollect(resp), priceOutcome).enriched)>>

\* C9 as stated: never more than MAX_WORKERS requests in flight.
C9_InFlightAtMostMaxWorkers == poolRunning <= MAX_WORKERS

\* C10: when the thread-pool enrich_with_prices returns, it has requested
\* the price of exactly the ids the sequential original requests for the
\* same catalog and the same answers, and its records are the original's,
\* in catalog order.
C10_EnrichEqualsSequential ==
    Enriched =>
        LET seq == SeqEnrich(catalog, priceOutcome)
        IN  /\ {p \in AllIds : pricePosts[p] > 0} = SeqToSet(seq.requested)
            /\ enriched = seq.enriched

\* C10 witness: enrich_with_prices has returned records for two ids whose
\* prices differ.
C10_Witness ==
    /\ pc = "save"
    /\ Len(unique_ids) = 2
    /\ \E i, j \in 1..Len(enriched) :
        enriched[i].marketing_price # enriched[j].marketing_price

====
